---- MODULE Spec2Model ----
(***************************************************************************)
(* Model of hal/Lvacfs.cpp: the binding layer that loads the LVACFS        *)
(* wrapper library (init/deinit) and drives one module instance per input  *)
(* stream (startInputStream / processInputStream / stopInputStream).       *)
(*                                                                         *)
(* init() and deinit() run on one thread and are modelled as one action    *)
(* each; the calls they make to the OS (access, dlopen, dlsym, dlclose)    *)
(* are logged, in program order, in initTrace.  The per-stream handlers    *)
(* run on the caller's threads and are split at their accesses to shared   *)
(* state (the stream's handle, its lock, the heap, the module).            *)
(***************************************************************************)
EXTENDS Integers, Sequences, FiniteSets, TLC

\* ---------------------------------------------------------------- bounds
NumThreads == 2     \* caller threads
NumBlocks == 2      \* heap blocks calloc can hand out

\* ------------------------------------------------------ program constants
ODM_LIB_PATH == "/odm/lib64/liblvacfs_wrapper.so"
VENDOR_LIB_PATH == "/vendor/lib64/liblvacfs_wrapper.so"
ODM_PARAMS_DIR_PATH == "/odm/etc/lvacfs_params"
VENDOR_PARAMS_DIR_PATH == "/vendor/etc/lvacfs_params"

\* the value of a default-constructed params_file_path_ / a null pointer
NoPath == "<unset>"
NullLib == "<nullptr>"

\* The ten entry points, in the order of the dlsym chain of init().
SymbolNames ==
    << "lvacfs_wrapper_CreateLibraryInstance",
       "lvacfs_wrapper_DestroyLibraryInstance",
       "lvacfs_wrapper_Process",
       "lvacfs_wrapper_UpdateZoomInfo",
       "lvacfs_wrapper_UpdateAngleInfo",
       "lvacfs_SetParamsFilePath",
       "lvacfs_wrapper_SetProfile",
       "lvacfs_wrapper_SetAudioDirection",
       "lvacfs_wrapper_SetDeviceOrientation",
       "lvacfs_wrapper_GetVersions" >>

Symbols == { SymbolNames[i] : i \in 1..Len(SymbolNames) }

create_instance == SymbolNames[1]
destroy_instance == SymbolNames[2]
process == SymbolNames[3]
set_params_file_path == SymbolNames[6]

Libs == { ODM_LIB_PATH, VENDOR_LIB_PATH }

\* ------------------------------------------------------------ engine state
\* wrapper_ops_ is a unique_ptr<lvacfs_wrapper_ops>: either null (allocated =
\* FALSE) or a table with a library handle and the non-null entry points.
NullOps == [ allocated |-> FALSE, lib_handle |-> NullLib, syms |-> {} ]

\* make_unique value-initialises the struct: every member is null.
NewOps == [ allocated |-> TRUE, lib_handle |-> NullLib, syms |-> {} ]

\* One logged OS call.
Call(op, arg, ok) == [ op |-> op, arg |-> arg, ok |-> ok ]

\* ---- path resolution, Lvacfs.cpp:39-46 ---------------------------------
ResolveParamsPathVendorFirst(odmDir, vendorDir) ==
    IF vendorDir THEN VENDOR_PARAMS_DIR_PATH
    ELSE IF odmDir THEN ODM_PARAMS_DIR_PATH
    ELSE NoPath

ResolveParamsPath(odmDir, vendorDir) ==
    IF odmDir THEN ODM_PARAMS_DIR_PATH
    ELSE IF vendorDir THEN VENDOR_PARAMS_DIR_PATH
    ELSE NoPath

AccessCalls(odmDir, vendorDir) ==
    IF odmDir
    THEN << Call("access", ODM_PARAMS_DIR_PATH, TRUE) >>
    ELSE << Call("access", ODM_PARAMS_DIR_PATH, FALSE),
            Call("access", VENDOR_PARAMS_DIR_PATH, vendorDir) >>

\* init() returns at line 45 when no directory was found.
AbortsNever(path) == FALSE

AbortsOnNoPath(path) == path = NoPath

\* ---- module load, Lvacfs.cpp:54-61 -------------------------------------
\* The dlopen calls made, in order, given which of the two files load.
DlopenCallsBoth(odmLib, vendorLib) ==
    << Call("dlopen", ODM_LIB_PATH, odmLib),
       Call("dlopen", VENDOR_LIB_PATH, vendorLib) >>

DlopenCalls(odmLib, vendorLib) ==
    IF odmLib
    THEN << Call("dlopen", ODM_LIB_PATH, TRUE) >>
    ELSE << Call("dlopen", ODM_LIB_PATH, FALSE),
            Call("dlopen", VENDOR_LIB_PATH, vendorLib) >>

\* The handle left in wrapper_ops_->lib_handle by a sequence of dlopen calls:
\* each call assigns the member, so the last call decides.
LoadedHandle(calls) ==
    LET last == calls[Len(calls)]
    IN  IF last.ok THEN last.arg ELSE NullLib

\* Reference counts of the loader after a sequence of dlopen calls.
RECURSIVE RefsAfter(_, _)
RefsAfter(refs, calls) ==
    IF calls = << >> THEN refs
    ELSE LET c == Head(calls)
             r == IF c.op = "dlopen" /\ c.ok
                  THEN [refs EXCEPT ![c.arg] = @ + 1]
                  ELSE refs
         IN  RefsAfter(r, Tail(calls))

\* ---- symbol resolution, Lvacfs.cpp:63-83 -------------------------------
\* The || chain: look the symbols up in order, store each result in the
\* table, stop at the first null.  exports is the set of symbols the loaded
\* library defines.  Returns the table's entries, the calls and the verdict.
RECURSIVE ResolveSymbols(_, _, _, _)
ResolveSymbols(exports, i, syms, calls) ==
    IF i > Len(SymbolNames)
    THEN [ ok |-> TRUE, syms |-> syms, calls |-> calls ]
    ELSE IF SymbolNames[i] \in exports
         THEN ResolveSymbols(exports, i + 1, syms \cup { SymbolNames[i] },
                             Append(calls, Call("dlsym", SymbolNames[i], TRUE)))
         ELSE [ ok |-> FALSE, syms |-> syms,
                calls |-> Append(calls, Call("dlsym", SymbolNames[i], FALSE)) ]

\* ---- deinit, Lvacfs.cpp:92-98 ------------------------------------------
\* The effect of deinit() on the table and on the loader: dlclose when the
\* table exists and holds a handle, then reset the unique_ptr.
DeinitKeepsTable(ops, refs) ==
    LET close == ops.allocated /\ ops.lib_handle # NullLib
    IN  [ ops   |-> ops,
          refs  |-> IF close /\ refs[ops.lib_handle] > 0
                    THEN [refs EXCEPT ![ops.lib_handle] = @ - 1] ELSE refs,
          calls |-> IF close
                    THEN << Call("dlclose", ops.lib_handle, refs[ops.lib_handle] > 0) >>
                    ELSE << >> ]

DeinitEffect(ops, refs) ==
    LET close == ops.allocated /\ ops.lib_handle # NullLib
    IN  [ ops   |-> NullOps,
          refs  |-> IF close /\ refs[ops.lib_handle] > 0
                    THEN [refs EXCEPT ![ops.lib_handle] = @ - 1] ELSE refs,
          calls |-> IF close
                    THEN << Call("dlclose", ops.lib_handle, refs[ops.lib_handle] > 0) >>
                    ELSE << >> ]

\* The failure branch of the dlsym chain, Lvacfs.cpp:84-86: deinit().
SymbolFailureLeaves(ops, refs) ==
    [ ops |-> ops, refs |-> refs, calls |-> << >> ]

SymbolFailure(ops, refs) == DeinitEffect(ops, refs)

\* ---- init, Lvacfs.cpp:38-90 --------------------------------------------
\* The whole of init() as a function of the engine state and of what the OS
\* answers: the new params_file_path_, wrapper_ops_, loader reference counts
\* and the calls made.  std::make_unique never returns null, so the return
\* of lines 49-52 is never taken.
InitEffect(path0, ops0, refs0, odmDir, vendorDir, odmLib, vendorLib, exports) ==
    LET path == ResolveParamsPath(odmDir, vendorDir)
        acc  == AccessCalls(odmDir, vendorDir)
    IN  IF AbortsOnNoPath(path)
        THEN [ path |-> path0, ops |-> ops0, refs |-> refs0, calls |-> acc ]
        ELSE
        LET opens == DlopenCalls(odmLib, vendorLib)
            h     == LoadedHandle(opens)
            refs1 == RefsAfter(refs0, opens)
            ops1  == [ NewOps EXCEPT !.lib_handle = h ]
        IN  IF h = NullLib
            THEN [ path |-> path, ops |-> ops1, refs |-> refs1,
                   calls |-> acc \o opens ]
            ELSE
            LET r    == ResolveSymbols(exports, 1, {}, << >>)
                ops2 == [ ops1 EXCEPT !.syms = r.syms ]
            IN  IF r.ok
                THEN [ path |-> path, ops |-> ops2, refs |-> refs1,
                       calls |-> acc \o opens \o r.calls ]
                ELSE LET d == SymbolFailure(ops2, refs1)
                     IN  [ path |-> path, ops |-> d.ops, refs |-> d.refs,
                           calls |-> acc \o opens \o r.calls \o d.calls ]

\* ------------------------------------------------------------------ state
Threads == 1..NumThreads
Blocks == 1..NumBlocks
Streams == { "inA", "inB" }     \* the StreamInPrimary objects
nullptr == 0                    \* the null void** / no thread
Rets == { -1, 0, 1 }            \* return codes of the module's entry points

VARIABLES
    params_file_path_,  \* Lvacfs::params_file_path_
    wrapper_ops_,       \* Lvacfs::wrapper_ops_
    dl_refs,            \* the loader: open references per library
    initTrace,          \* OS calls of the last init()/deinit(), in order
    lifecycle,          \* "new", "inited" (init returned), "deinited",
                        \* "deinited_again" (deinit called on a deinited engine)
    lvacfs_handle,      \* in->lvacfs_handle per stream: a block or nullptr
    lvacfs_lock,        \* in->lvacfs_lock per stream: the owner or nullptr
    heap,               \* per block: "free", or allocated and its slot
                        \* "empty" (null), "inst" (live instance),
                        \* "destroyed" (instance destroyed by the module)
    module_path,        \* the path last given to lvacfs_SetParamsFilePath
    pc,                 \* per thread: where it is in its handler; "returned"
                        \* once the handler has returned to the caller
    op,                 \* per thread: the handler it is in and the path taken:
                        \* "start", "start_nomem", "start_failed", "process",
                        \* "process_failed", "stop"
    sess,               \* per thread: the stream it operates on
    harg,               \* per thread: handle last passed to an entry point
    hcalls,             \* per thread: the calls its handler has completed, in
                        \* order, each with whether it succeeded (ret >= 0);
                        \* the argument is left out (nullptr)
    num_frames,         \* per thread: the local num_frames of processInputStream
    frame_args,         \* bytes, channel count and bytes per sample of the
                        \* buffers the capture pipeline hands in
    fault               \* "none", or the undefined behaviour that happened

engine == << params_file_path_, wrapper_ops_, dl_refs, initTrace, lifecycle >>
streams == << lvacfs_handle, lvacfs_lock, heap, module_path >>
threads == << pc, op, sess, harg, hcalls, num_frames >>
vars == << params_file_path_, wrapper_ops_, dl_refs, initTrace, lifecycle,
           lvacfs_handle, lvacfs_lock, heap, module_path,
           pc, op, sess, harg, hcalls, num_frames, frame_args, fault >>

\* The documented example buffer: 3200 bytes of 2-channel 16-bit audio.
ExampleArgs == [ bytes |-> 3200, channel_count |-> 2, bytes_per_sample |-> 2 ]

InitProgram ==
    /\ params_file_path_ = NoPath
    /\ wrapper_ops_ = NullOps
    /\ dl_refs = [ l \in Libs |-> 0 ]
    /\ initTrace = << >>
    /\ lifecycle = "new"
    /\ lvacfs_handle = [ s \in Streams |-> nullptr ]
    /\ lvacfs_lock = [ s \in Streams |-> nullptr ]
    /\ heap = [ b \in Blocks |-> "free" ]
    /\ module_path = NoPath
    /\ pc = [ t \in Threads |-> "idle" ]
    /\ op = [ t \in Threads |-> "none" ]
    /\ sess = [ t \in Threads |-> "inA" ]
    /\ harg = [ t \in Threads |-> nullptr ]
    /\ hcalls = [ t \in Threads |-> << >> ]
    /\ num_frames = [ t \in Threads |-> 0 ]
    /\ fault = "none"

Init == InitProgram /\ frame_args = ExampleArgs

AllIdle == \A t \in Threads : pc[t] = "idle"

\* ---- engine lifecycle -------------------------------------------------
\* init() is called once, on a newly constructed engine, and neither init()
\* nor deinit() is called while a stream handler is running (the callers
\* serialise the engine's lifecycle against stream activity).
\* The OS answers are inputs: whether each params directory exists, whether
\* each library file loads, and which symbols the loaded library exports.
init ==
    /\ fault = "none"
    /\ AllIdle
    /\ lifecycle = "new"
    /\ \E odmDir, vendorDir, odmLib, vendorLib \in BOOLEAN :
         \E exports \in SUBSET Symbols :
            LET e == InitEffect(params_file_path_, wrapper_ops_, dl_refs,
                                odmDir, vendorDir, odmLib, vendorLib, exports)
            IN  /\ params_file_path_' = e.path
                /\ wrapper_ops_' = e.ops
                /\ dl_refs' = e.refs
                /\ initTrace' = e.calls
    /\ lifecycle' = "inited"
    /\ UNCHANGED << streams, threads, frame_args, fault >>

deinit ==
    /\ fault = "none"
    /\ AllIdle
    /\ LET d == DeinitEffect(wrapper_ops_, dl_refs)
       IN  /\ wrapper_ops_' = d.ops
           /\ dl_refs' = d.refs
           /\ initTrace' = d.calls
           /\ fault' = IF \E i \in 1..Len(d.calls) : ~d.calls[i].ok
                       THEN "dlclose_of_closed_handle" ELSE "none"
    /\ lifecycle' = IF lifecycle \in { "deinited", "deinited_again" }
                    THEN "deinited_again" ELSE "deinited"
    /\ UNCHANGED << params_file_path_, streams, threads, frame_args >>

\* ---- calls through the capability table ---------------------------------
\* wrapper_ops_->f(...) is defined only when the unique_ptr is non-null and
\* the member f was resolved; otherwise it is a null dereference or a call
\* through a null function pointer.  Undefined behaviour ends the modelled
\* behaviour: fault records it and no further step is taken.
Callable(f) == wrapper_ops_.allocated /\ f \in wrapper_ops_.syms

NullCallFault == IF wrapper_ops_.allocated
                 THEN "call_of_null_function_pointer"
                 ELSE "dereference_of_null_wrapper_ops"

Ready == /\ wrapper_ops_.allocated
         /\ wrapper_ops_.lib_handle # NullLib
         /\ wrapper_ops_.syms = Symbols

\* The handler thread t is in returns to its caller.
Return(t) == pc' = [pc EXCEPT ![t] = "returned"]

\* The caller goes on after the handler has returned.
CallerResumes(t) ==
    /\ fault = "none"
    /\ pc[t] = "returned"
    /\ pc' = [pc EXCEPT ![t] = "idle"]
    /\ op' = [op EXCEPT ![t] = "none"]
    /\ sess' = [sess EXCEPT ![t] = "inA"]
    /\ harg' = [harg EXCEPT ![t] = nullptr]
    /\ hcalls' = [hcalls EXCEPT ![t] = << >>]
    /\ num_frames' = [num_frames EXCEPT ![t] = 0]
    /\ UNCHANGED << engine, streams, frame_args, fault >>

\* ---- stopInputStream, Lvacfs.cpp:131-138 -------------------------------
\* Line 132: call destroy_instance with the stream's current handle.
EnterDestroy(t, in, path) ==
    IF Callable(destroy_instance)
    THEN /\ pc' = [pc EXCEPT ![t] = "in_destroy"]
         /\ op' = [op EXCEPT ![t] = path]
         /\ sess' = [sess EXCEPT ![t] = in]
         /\ harg' = [harg EXCEPT ![t] = lvacfs_handle[in]]
         /\ fault' = fault
    ELSE /\ fault' = NullCallFault
         /\ UNCHANGED << pc, op, sess, harg >>

stopInputStream(t, in) ==
    /\ fault = "none"
    /\ pc[t] = "idle"
    /\ EnterDestroy(t, in, "stop")
    /\ UNCHANGED << engine, streams, hcalls, num_frames, frame_args >>

\* The heap after the module has destroyed the instance held through h.
AfterDestroyEvery(h) ==
    [ b \in Blocks |-> IF heap[b] = "inst" THEN "destroyed" ELSE heap[b] ]

AfterDestroy(h) ==
    IF h # nullptr /\ heap[h] = "inst" THEN [heap EXCEPT ![h] = "destroyed"] ELSE heap

\* Lines 133-135: a negative ret of destroy_instance is logged and the
\* teardown goes on all the same.
StopAbortsOnNegative(ret) == ret < 0

StopAborts(ret) == FALSE

\* destroy_instance returns (the code only logs a negative ret), then line
\* 136: free(in->lvacfs_handle); free(nullptr) does nothing.
DestroyReturn(t, ret) ==
    /\ fault = "none"
    /\ pc[t] = "in_destroy"
    /\ LET h  == lvacfs_handle[sess[t]]
           hp == AfterDestroy(harg[t])
           d  == Call("destroy_instance", nullptr, ret >= 0)
       IN  IF StopAborts(ret)
           THEN /\ heap' = hp
                /\ Return(t)
                /\ hcalls' = [hcalls EXCEPT ![t] = Append(@, d)]
                /\ fault' = fault
           ELSE IF h = nullptr
           THEN /\ heap' = hp
                /\ pc' = [pc EXCEPT ![t] = "stop_null"]
                /\ hcalls' = [hcalls EXCEPT ![t] = @ \o << d, Call("free", nullptr, TRUE) >>]
                /\ fault' = fault
           ELSE IF hp[h] = "free"
           THEN /\ fault' = "free_of_freed_block"
                /\ UNCHANGED << heap, pc, hcalls >>
           ELSE /\ heap' = [hp EXCEPT ![h] = "free"]
                /\ pc' = [pc EXCEPT ![t] = "stop_null"]
                /\ hcalls' = [hcalls EXCEPT ![t] = @ \o << d, Call("free", nullptr, TRUE) >>]
                /\ fault' = fault
    /\ UNCHANGED << engine, lvacfs_handle, lvacfs_lock, module_path,
                    op, sess, harg, num_frames, frame_args >>

\* The handle stopInputStream leaves in the stream, line 137.
StoppedHandleStale(in) == lvacfs_handle[in]

StoppedHandle(in) == nullptr

\* Line 137, and the return to the caller; when the caller is
\* processInputStream its lock_guard unlocks as it returns in turn.
StopNull(t) ==
    /\ fault = "none"
    /\ pc[t] = "stop_null"
    /\ lvacfs_handle' = [lvacfs_handle EXCEPT ![sess[t]] = StoppedHandle(sess[t])]
    /\ lvacfs_lock' = IF op[t] = "process_failed"
                      THEN [lvacfs_lock EXCEPT ![sess[t]] = nullptr]
                      ELSE lvacfs_lock
    /\ Return(t)
    /\ UNCHANGED << engine, heap, module_path, op, sess, harg, hcalls,
                    num_frames, frame_args, fault >>

\* ---- startInputStream, Lvacfs.cpp:100-117 ------------------------------
\* Lines 101-105: calloc returns null or a zeroed block that is not in use.
startInputStream(t, in, b) ==
    /\ fault = "none"
    /\ pc[t] = "idle"
    /\ IF b = nullptr THEN TRUE ELSE heap[b] = "free"
    /\ lvacfs_handle' = [lvacfs_handle EXCEPT ![in] = b]
    /\ heap' = IF b = nullptr THEN heap ELSE [heap EXCEPT ![b] = "empty"]
    /\ pc' = [pc EXCEPT ![t] = IF b = nullptr THEN "returned" ELSE "start_create"]
    /\ op' = [op EXCEPT ![t] = IF b = nullptr THEN "start_nomem" ELSE "start"]
    /\ sess' = [sess EXCEPT ![t] = in]
    /\ hcalls' = [hcalls EXCEPT ![t] = << Call("calloc", nullptr, b # nullptr) >>]
    /\ UNCHANGED << engine, lvacfs_lock, module_path, harg, num_frames,
                    frame_args, fault >>

\* Line 106: the path handed to set_params_file_path.
ParamsPathArgumentVendor == VENDOR_PARAMS_DIR_PATH

ParamsPathArgument == params_file_path_

\* Lines 106-112: set_params_file_path(params_file_path_), then call
\* create_instance with the stream's handle.
StartCreate(t) ==
    /\ fault = "none"
    /\ pc[t] = "start_create"
    /\ IF Callable(set_params_file_path) /\ Callable(create_instance)
       THEN /\ module_path' = ParamsPathArgument
            /\ pc' = [pc EXCEPT ![t] = "in_create"]
            /\ harg' = [harg EXCEPT ![t] = lvacfs_handle[sess[t]]]
            /\ hcalls' = [hcalls EXCEPT ![t] =
                             Append(@, Call("set_params_file_path", nullptr, TRUE))]
            /\ fault' = fault
       ELSE /\ fault' = NullCallFault
            /\ UNCHANGED << module_path, pc, harg, hcalls >>
    /\ UNCHANGED << engine, lvacfs_handle, lvacfs_lock, heap, op, sess,
                    num_frames, frame_args >>

\* Line 113: the test of create_instance's return code.
CreateFailed(ret) == ret < 0

\* create_instance returns.  ret >= 0: the module has stored the new
\* instance through the handle.  ret < 0 (line 113): stopInputStream(in).
CreateReturn(t, ret) ==
    /\ fault = "none"
    /\ pc[t] = "in_create"
    /\ IF ~CreateFailed(ret)
       THEN IF harg[t] # nullptr /\ heap[harg[t]] # "free"
            THEN /\ heap' = [heap EXCEPT ![harg[t]] = "inst"]
                 /\ Return(t)
                 /\ hcalls' = [hcalls EXCEPT ![t] =
                                  Append(@, Call("create_instance", nullptr, TRUE))]
                 /\ UNCHANGED << op, sess, harg, fault >>
            ELSE /\ fault' = "module_write_through_freed_handle"
                 /\ UNCHANGED << heap, pc, op, sess, harg, hcalls >>
       ELSE /\ EnterDestroy(t, sess[t], "start_failed")
            /\ hcalls' = IF Callable(destroy_instance)
                         THEN [hcalls EXCEPT ![t] =
                                 Append(@, Call("create_instance", nullptr, FALSE))]
                         ELSE hcalls
            /\ heap' = heap
    /\ UNCHANGED << engine, lvacfs_handle, lvacfs_lock, module_path,
                    num_frames, frame_args >>

\* ---- processInputStream, Lvacfs.cpp:119-129 ----------------------------
\* The thread arrives at the lock_guard of line 120.
processInputStream(t, in) ==
    /\ fault = "none"
    /\ pc[t] = "idle"
    /\ pc' = [pc EXCEPT ![t] = "proc_lock"]
    /\ op' = [op EXCEPT ![t] = "process"]
    /\ sess' = [sess EXCEPT ![t] = in]
    /\ UNCHANGED << engine, streams, harg, hcalls, num_frames, frame_args, fault >>

\* std::mutex::lock returns only when no thread owns the mutex.
LockIgnored(in) == TRUE

LockSharedByStreams(in) == \A s \in Streams : lvacfs_lock[s] = nullptr

LockAvailable(in) == lvacfs_lock[in] = nullptr

\* Lines 121-122: num_frames = bytes / (channel_count * bytes per sample),
\* an unsigned division; the operands are positive.  The quotient is at most
\* bytes, so storing it in a uint32_t keeps it for every bytes below 2^32.
NumFramesPerChannel(bytes, channel_count, bytes_per_sample) ==
    bytes \div channel_count

NumFrames(bytes, channel_count, bytes_per_sample) ==
    bytes \div (channel_count * bytes_per_sample)

\* Lines 120-124: take the lock, compute num_frames, then call process with
\* the stream's handle.
ProcessLock(t) ==
    /\ fault = "none"
    /\ pc[t] = "proc_lock"
    /\ LockAvailable(sess[t])
    /\ lvacfs_lock' = [lvacfs_lock EXCEPT ![sess[t]] = t]
    /\ IF Callable(process)
       THEN /\ pc' = [pc EXCEPT ![t] = "in_process"]
            /\ harg' = [harg EXCEPT ![t] = lvacfs_handle[sess[t]]]
            /\ num_frames' = [num_frames EXCEPT ![t] =
                                NumFrames(frame_args.bytes, frame_args.channel_count,
                                          frame_args.bytes_per_sample)]
            /\ fault' = fault
       ELSE /\ fault' = NullCallFault
            /\ UNCHANGED << pc, harg, num_frames >>
    /\ UNCHANGED << engine, lvacfs_handle, heap, module_path, op, sess,
                    hcalls, frame_args >>

\* Line 125: the test of process's return code.
ProcessFailedOnZero(ret) == ret <= 0

ProcessFailed(ret) == ret < 0

\* process returns.  ret >= 0: return, releasing the lock.  ret < 0 (line
\* 125): stopInputStream(in), with the lock still held.
ProcessReturn(t, ret) ==
    /\ fault = "none"
    /\ pc[t] = "in_process"
    /\ IF ~ProcessFailed(ret)
       THEN /\ lvacfs_lock' = [lvacfs_lock EXCEPT ![sess[t]] = nullptr]
            /\ Return(t)
            /\ hcalls' = [hcalls EXCEPT ![t] =
                             Append(@, Call("process", nullptr, TRUE))]
            /\ UNCHANGED << op, sess, harg, fault >>
       ELSE /\ EnterDestroy(t, sess[t], "process_failed")
            /\ hcalls' = IF Callable(destroy_instance)
                         THEN [hcalls EXCEPT ![t] =
                                 Append(@, Call("process", nullptr, FALSE))]
                         ELSE hcalls
            /\ lvacfs_lock' = lvacfs_lock
    /\ UNCHANGED << engine, lvacfs_handle, heap, module_path,
                    num_frames, frame_args >>

\* -------------------------------------------------------------- behaviours
\* The steps of thread t.
ThreadStep(t) ==
    \/ \E in \in Streams, b \in Blocks \cup { nullptr } : startInputStream(t, in, b)
    \/ StartCreate(t)
    \/ \E ret \in Rets : CreateReturn(t, ret)
    \/ \E in \in Streams : processInputStream(t, in)
    \/ ProcessLock(t)
    \/ \E ret \in Rets : ProcessReturn(t, ret)
    \/ \E in \in Streams : stopInputStream(t, in)
    \/ \E ret \in Rets : DestroyReturn(t, ret)
    \/ StopNull(t)
    \/ CallerResumes(t)

\* Any interleaving of the threads' handlers.
Next ==
    \/ init
    \/ deinit
    \/ \E t \in Threads : ThreadStep(t)

Spec == Init /\ [][Next]_vars

\* One handler at a time: a thread steps only while every other thread is
\* outside the handlers (its caller has resumed).
Alone(t) == \A u \in Threads \ { t } : pc[u] = "idle"

NextSeq ==
    \/ init
    \/ deinit
    \/ \E t \in Threads, in \in Streams, b \in Blocks \cup { nullptr } :
            Alone(t) /\ startInputStream(t, in, b)
    \/ \E t \in Threads : Alone(t) /\ StartCreate(t)
    \/ \E t \in Threads, ret \in Rets : Alone(t) /\ CreateReturn(t, ret)
    \/ \E t \in Threads, in \in Streams : Alone(t) /\ processInputStream(t, in)
    \/ \E t \in Threads : Alone(t) /\ ProcessLock(t)
    \/ \E t \in Threads, ret \in Rets : Alone(t) /\ ProcessReturn(t, ret)
    \/ \E t \in Threads, in \in Streams : Alone(t) /\ stopInputStream(t, in)
    \/ \E t \in Threads, ret \in Rets : Alone(t) /\ DestroyReturn(t, ret)
    \/ \E t \in Threads : Alone(t) /\ StopNull(t)
    \/ \E t \in Threads : Alone(t) /\ CallerResumes(t)

SpecSeq == Init /\ [][NextSeq]_vars

\* One handler at a time per stream: a thread enters or goes on in a handler
\* on a stream only while no other thread is in a handler on that stream.
\* Handlers on different streams interleave freely.
OneCallPerStream(t) ==
    \A u \in Threads \ { t } :
        pc[u] = "idle" \/ pc'[t] = "idle" \/ sess[u] # sess'[t]

NextStream ==
    \/ init
    \/ deinit
    \/ \E t \in Threads : ThreadStep(t) /\ OneCallPerStream(t)

SpecStream == Init /\ [][NextStream]_vars

\* The buffers and formats processInputStream is given: every byte length
\* up to MaxBytes and the two documented example buffers, 1..MaxChannels
\* channels, and the sample widths audio_bytes_per_sample() reports.
MaxBytes == 8
MaxChannels == 2
SampleWidths == { 1, 2, 3, 4 }
FrameArgs ==
    [ bytes : (0..MaxBytes) \cup { 320, 3200 },
      channel_count : 1..MaxChannels,
      bytes_per_sample : SampleWidths ]

InitFrames == InitProgram /\ frame_args \in FrameArgs

\* One thread, the stream's I/O thread, calling the handlers for any buffer
\* size and format.
FrameThread == CHOOSE t \in Threads : TRUE

NextFrames ==
    \/ init
    \/ deinit
    \/ ThreadStep(FrameThread)

SpecFrames == InitFrames /\ [][NextFrames]_vars

\* ================================================================== claims
TraceIdx == 1..Len(initTrace)
IsDlopen(c) == c.op = "dlopen"
Dlopens == SelectSeq(initTrace, IsDlopen)
LoadedOk == { i \in TraceIdx : initTrace[i].op = "dlopen" /\ initTrace[i].ok }
NoLibOpen == \A l \in Libs : dl_refs[l] = 0

\* C1: after init() returns the engine is either ready (module loaded, all
\* ten entry points resolved) or in the state of an engine on which init()
\* was never called (no capability table, no module loaded).
C1_ReadyOrNeverInitialised ==
    lifecycle = "inited" => Ready \/ (wrapper_ops_ = NullOps /\ NoLibOpen)

\* C2: when the module was loaded and a symbol lookup fails, init() runs
\* deinit(): the one loaded module is closed by exactly one dlclose, after
\* the failed lookup, the table is cleared and no module stays open.
C2_SymbolFailureUnloadsOnce ==
    (lifecycle = "inited"
        /\ \E i \in TraceIdx : initTrace[i].op = "dlsym" /\ ~initTrace[i].ok)
    => /\ Cardinality(LoadedOk) = 1
       /\ Cardinality({ i \in TraceIdx : initTrace[i].op = "dlclose" }) = 1
       /\ LET n == Len(initTrace)
          IN  /\ initTrace[n].op = "dlclose"
              /\ initTrace[n].ok
              /\ \A i \in LoadedOk : initTrace[i].arg = initTrace[n].arg
              /\ initTrace[n - 1].op = "dlsym" /\ ~initTrace[n - 1].ok
       /\ wrapper_ops_ = NullOps
       /\ NoLibOpen

C2_Witness ==
    /\ lifecycle = "inited"
    /\ Len(initTrace) > 2
    /\ initTrace[Len(initTrace) - 1] = Call("dlsym", SymbolNames[10], FALSE)
    /\ initTrace[Len(initTrace)].op = "dlclose"

\* C3: the params path init() chooses is the overlay (/odm) directory when
\* it exists, else the vendor directory when it exists, else none.
C3_ParamsPathPriority ==
    lifecycle = "inited" =>
        LET odm    == \E i \in TraceIdx :
                        initTrace[i] = Call("access", ODM_PARAMS_DIR_PATH, TRUE)
            vendor == \E i \in TraceIdx :
                        initTrace[i] = Call("access", VENDOR_PARAMS_DIR_PATH, TRUE)
        IN  /\ initTrace[1].op = "access" /\ initTrace[1].arg = ODM_PARAMS_DIR_PATH
            /\ ~odm => /\ initTrace[2].op = "access"
                       /\ initTrace[2].arg = VENDOR_PARAMS_DIR_PATH
            /\ params_file_path_ = IF odm THEN ODM_PARAMS_DIR_PATH
                                   ELSE IF vendor THEN VENDOR_PARAMS_DIR_PATH
                                   ELSE NoPath

C3_Witness ==
    /\ lifecycle = "inited"
    /\ initTrace[1] = Call("access", ODM_PARAMS_DIR_PATH, FALSE)
    /\ initTrace[2] = Call("access", VENDOR_PARAMS_DIR_PATH, TRUE)
    /\ params_file_path_ = VENDOR_PARAMS_DIR_PATH

\* C4: in an execution of init() every dlopen and every dlsym comes after a
\* successful check of a params directory; when neither directory exists
\* init() makes no dlopen and no dlsym call.
C4_NoLoadWithoutParamsPath ==
    lifecycle = "inited" =>
        \A i \in TraceIdx :
            initTrace[i].op \in { "dlopen", "dlsym" } =>
                \E j \in 1..(i - 1) : initTrace[j].op = "access" /\ initTrace[j].ok

C4_Witness ==
    /\ lifecycle = "inited"
    /\ initTrace = << Call("access", ODM_PARAMS_DIR_PATH, FALSE),
                      Call("access", VENDOR_PARAMS_DIR_PATH, FALSE) >>
    /\ wrapper_ops_ = NullOps

\* C5: init() tries the /odm library first and the vendor library only after
\* the /odm attempt failed; at most one module is loaded and it provides the
\* handle; when both attempts fail the handle is null and no symbol is
\* looked up.
C5_ModuleLoadOrder ==
    lifecycle = "inited" =>
        /\ Len(Dlopens) <= 2
        /\ Len(Dlopens) >= 1 => Dlopens[1].arg = ODM_LIB_PATH
        /\ Len(Dlopens) = 2 => ~Dlopens[1].ok /\ Dlopens[2].arg = VENDOR_LIB_PATH
        /\ Cardinality(LoadedOk) <= 1
        /\ wrapper_ops_.lib_handle # NullLib =>
                \E i \in LoadedOk : initTrace[i].arg = wrapper_ops_.lib_handle
        /\ \A l \in Libs : dl_refs[l] = IF wrapper_ops_.lib_handle = l THEN 1 ELSE 0
        /\ (Len(Dlopens) > 0 /\ LoadedOk = {}) =>
                /\ Len(Dlopens) = 2
                /\ wrapper_ops_.lib_handle = NullLib
                /\ \A i \in TraceIdx : initTrace[i].op # "dlsym"

C5_Witness ==
    /\ lifecycle = "inited"
    /\ Dlopens = << Call("dlopen", ODM_LIB_PATH, FALSE),
                    Call("dlopen", VENDOR_LIB_PATH, TRUE) >>
    /\ Ready
    /\ wrapper_ops_.lib_handle = VENDOR_LIB_PATH

\* C6: deinit() from any engine state closes the module if and only if one
\* is loaded, clears the table and leaves no module open; a deinit() that
\* follows a deinit() closes nothing and changes nothing.
C6_DeinitSafe ==
    [][ deinit =>
          /\ wrapper_ops_' = NullOps
          /\ fault' = "none"
          /\ \A l \in Libs : dl_refs'[l] = 0
          /\ IF wrapper_ops_.allocated /\ wrapper_ops_.lib_handle # NullLib
             THEN /\ initTrace' = << Call("dlclose", wrapper_ops_.lib_handle, TRUE) >>
                  /\ dl_refs[wrapper_ops_.lib_handle] = 1
             ELSE /\ initTrace' = << >>
                  /\ dl_refs' = dl_refs
          /\ lifecycle \in { "deinited", "deinited_again" } =>
                /\ initTrace' = << >>
                /\ UNCHANGED << wrapper_ops_, dl_refs, params_file_path_ >>
      ]_vars

C6_Witness ==
    /\ lifecycle = "deinited_again"
    /\ wrapper_ops_ = NullOps
    /\ params_file_path_ # NoPath
    /\ fault = "none"

\* C7: on an engine that is not ready the stream handlers are safe no-ops:
\* they never call a null entry point nor dereference a null table.  (A
\* handler that does either never returns, so this is all of the claim that
\* a state can show.)
C7_InertHandlersAreNoOps ==
    fault \notin { "call_of_null_function_pointer",
                   "dereference_of_null_wrapper_ops" }

\* C8: when create_instance returns a negative code, startInputStream
\* returns with the stream as it was before it was ever started: handle
\* null, the block allocated for the handle freed, lock not held.
C8_FailedStartLeavesStreamUnstarted ==
    \A t \in Threads :
        (pc[t] = "returned" /\ op[t] = "start_failed") =>
            /\ lvacfs_handle[sess[t]] = nullptr
            /\ lvacfs_lock[sess[t]] = nullptr
            /\ harg[t] # nullptr
            /\ heap[harg[t]] = "free"
            /\ fault = "none"

C8_Witness ==
    \E t \in Threads :
        /\ pc[t] = "returned" /\ op[t] = "start_failed"
        /\ Ready
        /\ lvacfs_handle[sess[t]] = nullptr

\* C9: destroy_instance is called only with a handle that holds a live
\* instance, one that create_instance made and that was not yet destroyed.
C9_DestroyOnlyLiveInstances ==
    \A t \in Threads :
        pc[t] = "in_destroy" => harg[t] # nullptr /\ heap[harg[t]] = "inst"

\* C10: no two threads are inside the process entry point for the same
\* stream at the same time.
C10_ProcessMutualExclusion ==
    \A t1, t2 \in Threads :
        (t1 # t2 /\ pc[t1] = "in_process" /\ pc[t2] = "in_process")
            => sess[t1] # sess[t2]

C10_Witness ==
    \E t1, t2 \in Threads :
        /\ t1 # t2
        /\ sess[t1] = sess[t2]
        /\ pc[t1] = "in_process"
        /\ pc[t2] = "proc_lock"

\* C11: processInputStream calls on different streams never block each other.
\* A thread waiting for a stream's lock can take it and enter process whenever
\* that very lock is free, whatever other streams' locks are held; and a held
\* lock is held by a thread that is in a call on that stream.
C11_StreamsDoNotBlockEachOther ==
    /\ \A t \in Threads :
          (fault = "none" /\ pc[t] = "proc_lock" /\ lvacfs_lock[sess[t]] = nullptr)
              => ENABLED ProcessLock(t)
    /\ \A s \in Streams :
          lvacfs_lock[s] # nullptr => sess[lvacfs_lock[s]] = s

C11_Witness ==
    \E t1, t2 \in Threads :
        /\ sess[t1] # sess[t2]
        /\ pc[t1] = "in_process" /\ lvacfs_lock[sess[t1]] = t1
        /\ pc[t2] = "in_process" /\ lvacfs_lock[sess[t2]] = t2

\* C12: on a ready engine, with a stream whose instance is live, the return
\* code of process decides the outcome.  ret >= 0: the call returns, the
\* stream's handle and the heap are unchanged, destroy_instance is not called
\* and the lock is free again.  ret < 0: the stop path is entered with the
\* same handle, and when the call has returned destroy_instance ran exactly
\* once, the handle is null and the lock is free.
C12_ProcessOutcomeByReturnCode ==
    /\ [][ \A t \in Threads, ret \in Rets :
             ( /\ ProcessReturn(t, ret)
               /\ Ready
               /\ harg[t] # nullptr
               /\ heap[harg[t]] = "inst" )
             => IF ret >= 0
                THEN /\ pc'[t] = "returned" /\ op'[t] = "process"
                     /\ lvacfs_handle' = lvacfs_handle
                     /\ heap' = heap
                     /\ lvacfs_lock'[sess[t]] = nullptr
                     /\ hcalls'[t] = << Call("process", nullptr, TRUE) >>
                ELSE /\ pc'[t] = "in_destroy" /\ op'[t] = "process_failed"
                     /\ harg'[t] = harg[t]
                     /\ lvacfs_lock'[sess[t]] = t ]_vars
    /\ [] ( \A t \in Threads :
              (pc[t] = "returned" /\ op[t] = "process_failed")
              => /\ lvacfs_handle[sess[t]] = nullptr
                 /\ lvacfs_lock[sess[t]] = nullptr
                 /\ Len(hcalls[t]) = 3
                 /\ hcalls[t][1] = Call("process", nullptr, FALSE)
                 /\ hcalls[t][2].op = "destroy_instance"
                 /\ hcalls[t][3] = Call("free", nullptr, TRUE) )

C12_Witness ==
    \E t \in Threads :
        /\ pc[t] = "returned" /\ op[t] = "process"
        /\ Ready
        /\ harg[t] # nullptr
        /\ lvacfs_handle[sess[t]] = harg[t]
        /\ heap[harg[t]] = "inst"

\* C13: process is never called with a null handle, whatever sequence of
\* start, process and stop calls came before.
C13_ProcessNeverGetsNullHandle ==
    \A t \in Threads : pc[t] = "in_process" => harg[t] # nullptr

\* C14: stopInputStream completes the teardown whatever destroy_instance
\* returns: on its return, be it negative or not, the stream's storage is
\* freed and the call goes on to null the handle; when stopInputStream has
\* returned the handle is null and the call made destroy_instance and free,
\* once each.
C14_StopCompletesTeardown ==
    /\ [][ \A t \in Threads, ret \in Rets :
             DestroyReturn(t, ret)
             => /\ fault' = "none"
                /\ pc'[t] = "stop_null"
                /\ lvacfs_handle[sess[t]] # nullptr
                      => heap'[lvacfs_handle[sess[t]]] = "free" ]_vars
    /\ [] ( \A t \in Threads :
              (pc[t] = "returned" /\ op[t] = "stop")
              => /\ lvacfs_handle[sess[t]] = nullptr
                 /\ Len(hcalls[t]) = 2
                 /\ hcalls[t][1].op = "destroy_instance"
                 /\ hcalls[t][2] = Call("free", nullptr, TRUE) )

C14_Witness ==
    \E t \in Threads :
        /\ pc[t] = "returned" /\ op[t] = "stop"
        /\ hcalls[t][1] = Call("destroy_instance", nullptr, FALSE)
        /\ harg[t] # nullptr
        /\ heap[harg[t]] = "free"
        /\ lvacfs_handle[sess[t]] = nullptr

\* C15: for a byte length that is an exact multiple of channel_count times
\* bytes per sample, the frame count handed to process times that product is
\* the byte length again; 3200 bytes of 2-channel 16-bit audio are 800 frames
\* and 320 bytes of 1-channel 16-bit audio are 160 frames.
C15_FrameCount ==
    \A t \in Threads :
        (pc[t] = "in_process" /\ fault = "none")
        => LET frame_bytes == frame_args.channel_count * frame_args.bytes_per_sample
           IN  /\ frame_args.bytes % frame_bytes = 0
                      => num_frames[t] * frame_bytes = frame_args.bytes
               /\ frame_args = [ bytes |-> 3200, channel_count |-> 2,
                                 bytes_per_sample |-> 2 ]
                      => num_frames[t] = 800
               /\ frame_args = [ bytes |-> 320, channel_count |-> 1,
                                 bytes_per_sample |-> 2 ]
                      => num_frames[t] = 160

C15_Witness ==
    \E t \in Threads :
        /\ pc[t] = "in_process"
        /\ frame_args = [ bytes |-> 320, channel_count |-> 1, bytes_per_sample |-> 2 ]
        /\ num_frames[t] = 160

\* C16: a processInputStream call that has taken the stream's lock goes on to
\* release it: whenever a lock is held, the thread that holds it has a step
\* to take.
C16_LockHolderProceeds ==
    \A s \in Streams :
        lvacfs_lock[s] # nullptr => ENABLED ThreadStep(lvacfs_lock[s])

\* C17: one startInputStream call on a ready engine makes its calls in this
\* order: calloc, leaving a zero-filled storage in the stream; then
\* set_params_file_path, once, with the path init resolved; then
\* create_instance, once.  When calloc fails the call makes no other call and
\* the handle is null.
C17_StartCallOrder ==
    \A t \in Threads :
        LET allocated == Call("calloc", nullptr, TRUE)
            path_set  == Call("set_params_file_path", nullptr, TRUE)
        IN  /\ pc[t] = "start_create"
                 => /\ hcalls[t] = << allocated >>
                    /\ lvacfs_handle[sess[t]] # nullptr
                    /\ heap[lvacfs_handle[sess[t]]] = "empty"
            /\ pc[t] = "in_create"
                 => /\ hcalls[t] = << allocated, path_set >>
                    /\ module_path = params_file_path_
                    /\ module_path \in { ODM_PARAMS_DIR_PATH, VENDOR_PARAMS_DIR_PATH }
            /\ (pc[t] = "returned" /\ op[t] = "start")
                 => hcalls[t] = << allocated, path_set,
                                   Call("create_instance", nullptr, TRUE) >>
            /\ (pc[t] \in { "in_destroy", "stop_null", "returned" }
                    /\ op[t] = "start_failed")
                 => SubSeq(hcalls[t], 1, 3) =
                        << allocated, path_set,
                           Call("create_instance", nullptr, FALSE) >>
            /\ op[t] = "start_nomem"
                 => /\ hcalls[t] = << Call("calloc", nullptr, FALSE) >>
                    /\ lvacfs_handle[sess[t]] = nullptr

C17_Witness ==
    \E t \in Threads :
        /\ pc[t] = "in_create"
        /\ Ready
        /\ module_path = ODM_PARAMS_DIR_PATH
        /\ hcalls[t] = << Call("calloc", nullptr, TRUE),
                          Call("set_params_file_path", nullptr, TRUE) >>

\* C18: a step of a start, process or stop call on one stream, a failing call
\* that tears the stream down included, leaves every other stream's handle,
\* lock and storage as they were, and leaves the engine's library handle,
\* symbol table and loader state as they were.  (A stream's handle holds no
\* storage between the free and the null store of its own stop path.)
C18_SessionIsolation ==
    [][ \A t \in Threads :
          ThreadStep(t)
          => /\ wrapper_ops_' = wrapper_ops_
             /\ dl_refs' = dl_refs
             /\ \A other \in Streams \ { IF pc[t] = "idle" THEN sess'[t] ELSE sess[t] } :
                   /\ lvacfs_handle'[other] = lvacfs_handle[other]
                   /\ lvacfs_lock'[other] = lvacfs_lock[other]
                   /\ (lvacfs_handle[other] # nullptr
                          /\ \A u \in Threads :
                                ~(pc[u] = "stop_null" /\ sess[u] = other))
                      => heap'[lvacfs_handle[other]] = heap[lvacfs_handle[other]]
      ]_vars

C18_Witness ==
    \E t \in Threads, other \in Streams :
        /\ pc[t] = "returned" /\ op[t] = "process_failed"
        /\ other # sess[t]
        /\ lvacfs_handle[sess[t]] = nullptr
        /\ lvacfs_handle[other] # nullptr
        /\ heap[lvacfs_handle[other]] = "inst"
        /\ lvacfs_lock[other] # nullptr

\* C19: while a thread is inside process for a stream, the instance it was
\* handed is neither destroyed nor freed by another thread.
C19_NoTeardownDuringProcess ==
    [][ \A t \in Threads :
          ( /\ pc[t] = "in_process" /\ pc'[t] = "in_process"
            /\ harg[t] # nullptr
            /\ heap[harg[t]] = "inst" )
          => heap'[harg[t]] = "inst" ]_vars

\* C20: on a ready engine, whenever no handler is running, the storages
\* allocated and not freed are exactly those the streams' handles hold: one
\* for each stream whose handle is not null, none for the others.
C20_HandleStorageAccounting ==
    ( /\ Ready
      /\ fault = "none"
      /\ \A t \in Threads : pc[t] \in { "idle", "returned" } )
    => /\ Cardinality({ b \in Blocks : heap[b] # "free" })
            = Cardinality({ s \in Streams : lvacfs_handle[s] # nullptr })
       /\ \A s \in Streams :
            lvacfs_handle[s] # nullptr => heap[lvacfs_handle[s]] # "free"

====
